---- MODULE Spec2Model ----
(***************************************************************************)
(* Model of the market-query pipeline core:                                *)
(*   - the YAML flow runner of src/mcp_runner.py (DotDict, import_func,    *)
(*     run_flow, eval_template);                                           *)
(*   - the gap / opportunity scoring engine of                             *)
(*     src/agents/gap_detector/gap_detection.py;                           *)
(*   - score_similarity of                                                 *)
(*     src/agents/similarity_scorer/similarity_scorer.py;                  *)
(*   - search_ddg of src/agents/market_search/_ddg_search.py.              *)
(*                                                                         *)
(* Python values are tagged records:                                       *)
(*   [str |-> <<tokens>>]   a string, as the sequence of its lexical       *)
(*                          tokens ("$", "{", "}", ".", " " and whole      *)
(*                          identifiers; two identifiers are never         *)
(*                          adjacent in one string)                        *)
(*   [int |-> n]  [bool |-> b]  [none |-> TRUE]                            *)
(*   [dict |-> f, dot |-> b] a mapping; dot = TRUE when the object is a    *)
(*                          DotDict, FALSE when it is a plain dict         *)
(*   [method |-> k]         the bound built-in method k of a dict          *)
(*   [fn |-> f, args |-> a] the (opaque) value returned by the pure        *)
(*                          callable f applied to keyword arguments a      *)
(***************************************************************************)
EXTENDS Integers, Sequences, FiniteSets, TLC

VARIABLES
    \* ---- run_flow ----
    flow,       \* flow["steps"]: the declared sequence of step descriptors
    inputs,     \* the inputs mapping handed to run_flow
    ctx,        \* ctx = {"inputs": DotDict(inputs), "steps": DotDict()}
    pc,         \* position of run_flow
    i,          \* index of the step the for loop is at (0 before the loop)
    func,       \* callable imported for step i
    args,       \* keyword arguments resolved for step i
    output,     \* value returned by step i's callable
    calls,      \* order-recording side channel: one entry per invocation
    result,     \* what run_flow returned to its caller
    error,      \* the exception that left run_flow
    \* ---- eval_template on its own ----
    tval,       \* the value handed to eval_template
    tctx,       \* the context handed to eval_template
    tctx0,      \* the context as it was before the call
    tres,       \* what eval_template returned / raised
    tpc,        \* number of eval_template calls made
    \* ---- analyze_market_gaps ----
    scored_results,     \* the competitor records
    uniqueness_score,   \* in thousandths
    saturation,         \* the saturation label
    apc,                \* position of analyze_market_gaps
    analysis,           \* the parts of the analysis computed so far
    response,           \* what analyze_market_gaps returned
    first,              \* what the previous call, on the same arguments, returned
    \* ---- score_similarity ----
    parsed_idea,        \* the parsed idea handed to score_similarity
    market_results,     \* the list handed over; its elements are written to
    sim_results,        \* the local list scored_results of score_similarity
    spc,                \* position of score_similarity
    llm,                \* side channel: what the LLM did at each call
    sret,               \* what score_similarity returned / raised
    \* ---- search_ddg ----
    max_results,        \* the max_results argument
    attempt,            \* the loop variable of the retry loop
    results,            \* the list results of search_ddg
    dpc,                \* position of search_ddg
    backend,            \* side channel: what the backend did at each attempt
    dret                \* what search_ddg returned / raised

runnerVars == <<flow, inputs, ctx, pc, i, func, args, output, calls, result, error>>
templateVars == <<tval, tctx, tctx0, tres, tpc>>
scoreVars == <<scored_results, uniqueness_score, saturation, apc, analysis, response, first>>
simVars == <<parsed_idea, market_results, sim_results, spc, llm, sret>>
ddgVars == <<max_results, attempt, results, dpc, backend, dret>>
agentVars == <<simVars, ddgVars>>
vars == <<runnerVars, templateVars, scoreVars, agentVars>>

----------------------------------------------------------------------------
(* Python values *)

StrV(s) == [str |-> s]
IntV(n) == [int |-> n]
BoolV(b) == [bool |-> b]
NoneV == [none |-> TRUE]
MethodV(k) == [method |-> k]
AppV(f, a) == [fn |-> f, args |-> a]
EmptyMap == [k \in {} |-> NoneV]
DictV(f) == [dict |-> f, dot |-> FALSE]

IsStr(v) == "str" \in DOMAIN v
IsDict(v) == "dict" \in DOMAIN v
IsDotDict(v) == IsDict(v) /\ v.dot

\* DotDict(value): a new DotDict holding the items of value
DotDict(v) == [dict |-> v.dict, dot |-> TRUE]

\* d[k] = v on a dict
SetItem(d, k, v) == [d EXCEPT !.dict = (k :> v) @@ d.dict]

\* Python's == on values: a DotDict equals the dict with the same items
RECURSIVE Plain(_)
Plain(v) ==
    IF IsDict(v)
    THEN [dict |-> [k \in DOMAIN v.dict |-> Plain(v.dict[k])], dot |-> FALSE]
    ELSE IF "fn" \in DOMAIN v
    THEN [fn |-> v.fn, args |-> [k \in DOMAIN v.args |-> Plain(v.args[k])]]
    ELSE v

PyEq(a, b) == Plain(a) = Plain(b)

\* attribute names every dict object already has (dict's own methods)
DictAttrs == {"items", "keys", "values", "get", "update", "copy", "pop",
              "popitem", "clear", "setdefault", "fromkeys"}

----------------------------------------------------------------------------
(* DotDict.__getattr__ and attribute access *)

Ok(v, self) == [err |-> "none", val |-> v, self |-> self]
Raise(e, self) == [err |-> e, val |-> NoneV, self |-> self]

\* DotDict.__getattr__(self, key): self[key], wrapping and caching a plain dict
DotDictGetattr(self, key) ==
    IF key \notin DOMAIN self.dict
    THEN Raise("KeyError", self)
    ELSE LET value == self.dict[key] IN
         IF IsDict(value) /\ ~IsDotDict(value)
         THEN Ok(DotDict(value), SetItem(self, key, DotDict(value)))
         ELSE Ok(value, self)

\* obj.key as Python evaluates it: normal attribute lookup first, and
\* __getattr__ only when that lookup finds nothing
GetAttr(obj, key) ==
    IF IsDict(obj) /\ key \in DictAttrs
    THEN Ok(MethodV(key), obj)
    ELSE IF IsDotDict(obj)
    THEN DotDictGetattr(obj, key)
    ELSE Raise("AttributeError", obj)

\* obj.k1.k2...: left to right; a wrapped value is the object cached in obj
RECURSIVE GetPath(_, _)
GetPath(obj, path) ==
    IF path = <<>>
    THEN Ok(obj, obj)
    ELSE LET a == GetAttr(obj, Head(path)) IN
         IF a.err # "none"
         THEN a
         ELSE LET r == GetPath(a.val, Tail(path))
                  self == IF IsDict(a.val)
                          THEN SetItem(a.self, Head(path), r.self)
                          ELSE a.self
              IN [err |-> r.err, val |-> r.val, self |-> self]

----------------------------------------------------------------------------
(* eval_template *)

StartsWith(s, p) == Len(s) >= Len(p) /\ SubSeq(s, 1, Len(p)) = p
EndsWith(s, p) == Len(s) >= Len(p) /\ SubSeq(s, Len(s) - Len(p) + 1, Len(s)) = p

\* s[a:-b]
Slice(s, a, b) == SubSeq(s, a + 1, Len(s) - b)

RECURSIVE NoSpaces(_)
NoSpaces(s) ==
    IF s = <<>> THEN <<>>
    ELSE IF Head(s) = " " THEN NoSpaces(Tail(s))
    ELSE <<Head(s)>> \o NoSpaces(Tail(s))

IsName(t) == t \notin {"$", "{", "}", ".", " "}

\* the expression is name(.name)*
IsDottedPath(e) ==
    /\ Len(e) >= 1
    /\ Len(e) % 2 = 1
    /\ \A n \in 1..Len(e) : IF n % 2 = 1 THEN IsName(e[n]) ELSE e[n] = "."

PathNames(e) == [n \in 1..((Len(e) + 1) \div 2) |-> e[2 * n - 1]]

\* eval(expr, {}, ctx): names are looked up in ctx, attributes with GetAttr
Eval(expr, c) ==
    LET e == NoSpaces(expr) IN
    IF ~IsDottedPath(e)
    THEN Raise("SyntaxError", c)
    ELSE LET names == PathNames(e) IN
         IF Head(names) \notin DOMAIN c
         THEN Raise("NameError", c)
         ELSE LET r == GetPath(c[Head(names)], Tail(names)) IN
              [err |-> r.err, val |-> r.val,
               self |-> [c EXCEPT ![Head(names)] = r.self]]

IsTemplate(val) ==
    /\ IsStr(val)
    /\ StartsWith(val.str, <<"$", "{", "{">>)
    /\ EndsWith(val.str, <<"}", "}">>)

\* eval_template, had it tested only for the leading marker
eval_template_prefix(val, c) ==
    IF IsStr(val) /\ StartsWith(val.str, <<"$", "{", "{">>)
    THEN Eval(Slice(val.str, 3, 2), c)
    ELSE Ok(val, c)

eval_template(val, c) ==
    IF IsTemplate(val)
    THEN Eval(Slice(val.str, 3, 2), c)
    ELSE Ok(val, c)

----------------------------------------------------------------------------
(* import_func and the callables a flow can name *)

\* the importable modules and the functions each one defines
Modules == {<<"agents", "stub">>}
ModuleFuncs == {"pure", "sentinel", "boom"}

\* import_func(path), path given as its "."-separated segments
import_func(path) ==
    IF Len(path) < 2
    THEN Raise("ValueError", path)
    ELSE LET module_path == SubSeq(path, 1, Len(path) - 1)
             func_name == path[Len(path)]
         IN IF module_path \notin Modules
            THEN Raise("ModuleNotFoundError", path)
            ELSE IF func_name \notin ModuleFuncs
            THEN Raise("AttributeError", path)
            ELSE Ok(func_name, path)

\* the error sentinel an agent returns instead of raising
ErrorSentinel ==
    DictV(("success" :> BoolV(FALSE)) @@ ("error" :> StrV(<<"unavailable">>)))

\* func(**args) for the three stub collaborators
Call(f, kwargs) ==
    CASE f = "pure" -> Ok(AppV("pure", kwargs), f)
      [] f = "sentinel" -> Ok(ErrorSentinel, f)
      [] OTHER -> Raise("RuntimeError", f)

----------------------------------------------------------------------------
(* the flows and inputs run_flow is started with *)

MaxSteps == 3

Dotted(path) ==
    IF Len(path) = 0 THEN <<>>
    ELSE [n \in 1..(2 * Len(path) - 1) |->
            IF n % 2 = 1 THEN path[(n + 1) \div 2] ELSE "."]

\* the string "${{ a.b.c }}"
Tmpl(path) == StrV(<<"$", "{", "{", " ">> \o Dotted(path) \o <<" ", "}", "}">>)

StepIds == {"parse", "search", "items"}

Arg(name, val) == [name |-> name, val |-> val]

PureArgs ==
    {<<>>,
     <<Arg("x", Tmpl(<<"inputs", "idea">>))>>,
     <<Arg("x", Tmpl(<<"steps", "items">>))>>}
    \cup {<<Arg("x", Tmpl(<<"steps", id, "output">>))>> : id \in StepIds}

StepSpec(id, uses, a) == [id |-> id, uses |-> uses, args |-> a]

StepSpecs ==
    {StepSpec(id, <<"agents", "stub", "pure">>, a) : id \in StepIds, a \in PureArgs}
    \cup {StepSpec(id, <<"agents", "stub", "sentinel">>, <<>>) : id \in StepIds}
    \cup {StepSpec("parse", <<"agents", "stub", "boom">>, <<>>),
          StepSpec("search", <<"agents", "stub", "boom">>,
                   <<Arg("x", Tmpl(<<"steps", "parse", "output">>))>>),
          StepSpec("search", <<"agents", "stub", "pure">>,
                   <<Arg("x", Tmpl(<<"inputs", "idea">>)),
                     Arg("y", Tmpl(<<"steps", "parse", "output">>))>>),
          StepSpec("search", <<"agents", "missing", "pure">>,
                   <<Arg("x", Tmpl(<<"inputs", "idea">>))>>)}

Flows == UNION {[1..n -> StepSpecs] : n \in 0..MaxSteps}

TheInputs == DictV("idea" :> StrV(<<"robot", " ", "lawnmower">>))

----------------------------------------------------------------------------
(* run_flow *)

\* {k: eval_template(v, ctx) for k, v in step.get("args", {}).items()}
RECURSIVE ResolveArgs(_, _, _)
ResolveArgs(items, c, acc) ==
    IF items = <<>>
    THEN Ok(acc, c)
    ELSE LET r == eval_template(Head(items).val, c) IN
         IF r.err # "none"
         THEN Raise(r.err, r.self)
         ELSE ResolveArgs(Tail(items), r.self, (Head(items).name :> r.val) @@ acc)

IdleTemplate ==
    /\ tval = NoneV
    /\ tctx = EmptyMap
    /\ tctx0 = EmptyMap
    /\ tres = Ok(NoneV, EmptyMap)
    /\ tpc = 0

IdleScore ==
    /\ scored_results = <<>>
    /\ uniqueness_score = 0
    /\ saturation = "unknown"
    /\ apc = "idle"
    /\ analysis = EmptyMap
    /\ response = NoneV
    /\ first = NoneV

IdleSimilarity ==
    /\ parsed_idea = "none"
    /\ market_results = <<>>
    /\ sim_results = <<>>
    /\ spc = "idle"
    /\ llm = <<>>
    /\ sret = NoneV

IdleDdg ==
    /\ max_results = 0
    /\ attempt = 0
    /\ results = <<>>
    /\ dpc = "idle"
    /\ backend = <<>>
    /\ dret = NoneV

IdleAgents == IdleSimilarity /\ IdleDdg

Init ==
    /\ flow \in Flows
    /\ inputs = TheInputs
    /\ ctx = [inputs |-> DotDict(inputs), steps |-> DotDict(DictV(EmptyMap))]
    /\ pc = "loop"
    /\ i = 0
    /\ func = "none"
    /\ args = EmptyMap
    /\ output = NoneV
    /\ calls = <<>>
    /\ result = NoneV
    /\ error = "none"
    /\ IdleTemplate
    /\ IdleScore
    /\ IdleAgents

\* for step in flow["steps"]: step_id = step["id"]
ForStep ==
    /\ pc = "loop"
    /\ i < Len(flow)
    /\ i' = i + 1
    /\ pc' = "import"
    /\ UNCHANGED <<flow, inputs, ctx, func, args, output, calls, result, error>>
    /\ UNCHANGED <<templateVars, scoreVars, agentVars>>

\* func = import_func(step["uses"])
ImportFunc ==
    /\ pc = "import"
    /\ LET r == import_func(flow[i].uses) IN
       IF r.err # "none"
       THEN /\ error' = r.err
            /\ pc' = "raised"
            /\ func' = func
       ELSE /\ func' = r.val
            /\ pc' = "args"
            /\ error' = error
    /\ UNCHANGED <<flow, inputs, ctx, i, args, output, calls, result>>
    /\ UNCHANGED <<templateVars, scoreVars, agentVars>>

\* args = {k: eval_template(v, ctx) ...}
ResolveStepArgs ==
    /\ pc = "args"
    /\ LET r == ResolveArgs(flow[i].args, ctx, EmptyMap) IN
       /\ ctx' = r.self
       /\ IF r.err # "none"
          THEN /\ error' = r.err
               /\ pc' = "raised"
               /\ args' = args
          ELSE /\ args' = r.val
               /\ pc' = "call"
               /\ error' = error
    /\ UNCHANGED <<flow, inputs, i, func, output, calls, result>>
    /\ UNCHANGED <<templateVars, scoreVars, agentVars>>

\* Invoke, had run_flow caught the exception of the callable and carried on
InvokeSwallowing ==
    /\ pc = "call"
    /\ LET r == Call(func, args) IN
       /\ calls' = Append(calls, [step |-> i, fn |-> func, args |-> args,
                                  ret |-> r.val, raised |-> r.err # "none"])
       /\ output' = r.val
       /\ pc' = "store"
       /\ error' = error
    /\ UNCHANGED <<flow, inputs, ctx, i, func, args, result>>
    /\ UNCHANGED <<templateVars, scoreVars, agentVars>>

\* Invoke, had run_flow treated a returned error sentinel as a failure
InvokeInspecting ==
    /\ pc = "call"
    /\ LET r == Call(func, args)
           failed == r.err # "none" \/ r.val = ErrorSentinel
       IN
       /\ calls' = Append(calls, [step |-> i, fn |-> func, args |-> args,
                                  ret |-> r.val, raised |-> r.err # "none"])
       /\ IF failed
          THEN /\ error' = "StepExecutionError"
               /\ pc' = "raised"
               /\ output' = output
          ELSE /\ output' = r.val
               /\ pc' = "store"
               /\ error' = error
    /\ UNCHANGED <<flow, inputs, ctx, i, func, args, result>>
    /\ UNCHANGED <<templateVars, scoreVars, agentVars>>

\* output = func(**args)
Invoke ==
    /\ pc = "call"
    /\ LET r == Call(func, args) IN
       /\ calls' = Append(calls, [step |-> i, fn |-> func, args |-> args,
                                  ret |-> r.val, raised |-> r.err # "none"])
       /\ IF r.err # "none"
          THEN /\ error' = r.err
               /\ pc' = "raised"
               /\ output' = output
          ELSE /\ output' = r.val
               /\ pc' = "store"
               /\ error' = error
    /\ UNCHANGED <<flow, inputs, ctx, i, func, args, result>>
    /\ UNCHANGED <<templateVars, scoreVars, agentVars>>

\* Store, had the output been dropped instead of recorded
StoreDropping ==
    /\ pc = "store"
    /\ pc' = "loop"
    /\ UNCHANGED <<flow, inputs, ctx, i, func, args, output, calls, result, error>>
    /\ UNCHANGED <<templateVars, scoreVars, agentVars>>

\* ctx["steps"][step_id] = {"output": output}
Store ==
    /\ pc = "store"
    /\ ctx' = [ctx EXCEPT !.steps = SetItem(@, flow[i].id, DictV("output" :> output))]
    /\ pc' = "loop"
    /\ UNCHANGED <<flow, inputs, i, func, args, output, calls, result, error>>
    /\ UNCHANGED <<templateVars, scoreVars, agentVars>>

\* return ctx["steps"]
Return ==
    /\ pc = "loop"
    /\ i = Len(flow)
    /\ result' = ctx.steps
    /\ pc' = "returned"
    /\ UNCHANGED <<flow, inputs, ctx, i, func, args, output, calls, error>>
    /\ UNCHANGED <<templateVars, scoreVars, agentVars>>

Next == ForStep \/ ImportFunc \/ ResolveStepArgs \/ Invoke \/ Store \/ Return

Spec == Init /\ [][Next]_vars

----------------------------------------------------------------------------
(* eval_template applied to values and contexts of every shape *)

MaxEvals == 2

Marker == <<"$", "{", "{", " ", "inputs", ".", "idea", " ", "}", "}">>

\* values eval_template passes through
LiteralVals ==
    {IntV(5), NoneV, BoolV(TRUE), DictV("idea" :> IntV(1)),
     StrV(<<>>), StrV(<<"literal">>),
     StrV(<<"see", " ">> \o Marker),
     StrV(Marker \o <<" ", "now">>),
     StrV(<<"see", " ">> \o Marker \o <<" ", "now">>),
     StrV(<<"$", "{", "{">>), StrV(<<"}", "}">>), StrV(<<"$", "{", "{", "}">>),
     StrV(<<"{", "{", " ", "inputs", ".", "idea", " ", "}", "}">>)}

\* strings of the form ${{ ... }}
TemplateVals ==
    {Tmpl(<<"inputs">>), Tmpl(<<"inputs", "idea">>), Tmpl(<<"inputs", "nokey">>),
     Tmpl(<<"inputs", "items">>), Tmpl(<<"inputs", "spec", "tags">>),
     Tmpl(<<"inputs", "idea", "tags">>),
     Tmpl(<<"steps", "parse">>), Tmpl(<<"steps", "parse", "output">>),
     Tmpl(<<"steps", "parse", "output", "tags">>),
     Tmpl(<<"steps", "parse", "output", "keys">>),
     Tmpl(<<"steps", "items", "output">>), Tmpl(<<"steps", "search", "output">>),
     Tmpl(<<"flow", "name">>),
     StrV(<<"$", "{", "{", "inputs", ".", "idea", "}", "}">>),
     StrV(<<"$", "{", "{", "}", "}">>),
     StrV(<<"$", "{", "{", " ", "inputs", " ", "idea", " ", "}", "}">>)}

EvalVals == LiteralVals \cup TemplateVals

ParseOutput == DictV(("tags" :> IntV(7)) @@ ("keys" :> IntV(2)))

EvalInputs ==
    {DictV("idea" :> StrV(<<"robot">>)),
     DictV(("idea" :> StrV(<<"robot">>)) @@ ("items" :> IntV(3))
           @@ ("spec" :> DictV("tags" :> IntV(9))))}

EvalSteps ==
    {DictV(EmptyMap),
     DictV("parse" :> DictV("output" :> ParseOutput)),
     DictV(("parse" :> DictV("output" :> IntV(4)))
           @@ ("items" :> DictV("output" :> IntV(6))))}

EvalCtxs == {[inputs |-> DotDict(a), steps |-> DotDict(b)] :
                a \in EvalInputs, b \in EvalSteps}

\* the context as run_flow builds it: only the two roots are DotDicts
InitialWrap(c) == [inputs |-> DotDict(Plain(c.inputs)), steps |-> DotDict(Plain(c.steps))]

IdleRunner ==
    /\ flow = <<>>
    /\ inputs = DictV(EmptyMap)
    /\ ctx = [inputs |-> DotDict(DictV(EmptyMap)), steps |-> DotDict(DictV(EmptyMap))]
    /\ pc = "idle"
    /\ i = 0
    /\ func = "none"
    /\ args = EmptyMap
    /\ output = NoneV
    /\ calls = <<>>
    /\ result = NoneV
    /\ error = "none"

InitTemplate ==
    /\ IdleRunner
    /\ IdleAgents
    /\ IdleScore
    /\ tval = NoneV
    /\ tctx \in EvalCtxs
    /\ tctx0 = tctx
    /\ tres = Ok(NoneV, tctx)
    /\ tpc = 0

\* one call eval_template(val, ctx) on the context the previous calls left
EvalTemplate ==
    /\ tpc < MaxEvals
    /\ \E val \in EvalVals :
          /\ tval' = val
          /\ tres' = eval_template(val, tctx)
          /\ tctx' = tres'.self
    /\ tctx0' = tctx
    /\ tpc' = tpc + 1
    /\ UNCHANGED <<runnerVars, scoreVars, agentVars>>

NextTemplate == EvalTemplate

SpecTemplate == InitTemplate /\ [][NextTemplate]_vars

----------------------------------------------------------------------------
(* Gap / opportunity scoring engine: numbers                                *)
(*                                                                         *)
(* A record's similarity is an integer counting ten-thousandths (the      *)
(* scorer hands over any float).  The uniqueness score and the similarity  *)
(* statistics, which are rounded to 3 digits, are integers counting        *)
(* thousandths; confidences count thousandths; reported scores (rounded    *)
(* to one decimal) count tenths.  Unrounded scores are exact fractions     *)
(* num / den.  round() is round-half-to-even on the exact value.           *)

Max(a, b) == IF a >= b THEN a ELSE b
Min(a, b) == IF a <= b THEN a ELSE b

\* round(n / d) for d > 0, ties to the even neighbour
RoundDiv(n, d) ==
    LET q == n \div d
        r == n % d
    IN IF 2 * r < d THEN q
       ELSE IF 2 * r > d THEN q + 1
       ELSE IF q % 2 = 0 THEN q ELSE q + 1

\* the values round(n / d) can take when n / d is the exact value of an
\* expression evaluated in binary floating point
Rounds(n, d) ==
    IF 2 * (n % d) = d THEN {n \div d, (n \div d) + 1} ELSE {RoundDiv(n, d)}

RECURSIVE SqrtSearch(_, _, _)
SqrtSearch(n, lo, hi) ==
    IF lo >= hi THEN lo
    ELSE LET mid == (lo + hi + 1) \div 2 IN
         IF mid * mid <= n THEN SqrtSearch(n, mid, hi) ELSE SqrtSearch(n, lo, mid - 1)

\* floor of the square root of n >= 0
ISqrt(n) == SqrtSearch(n, 0, Min(n, 40000))

\* round(sqrt(n / d)) for n >= 0, d > 0: with k the floor of the root,
\* k + 1 when n / d > (k + 1/2)^2 = k^2 + k + 1/4, ties to the even neighbour
RoundSqrt(n, d) ==
    LET q == n \div d
        r == n % d
        k == ISqrt(q)
        m == q - k * k - k
    IN IF m > 0 \/ (m = 0 /\ 4 * r > d) THEN k + 1
       ELSE IF m = 0 /\ 4 * r = d /\ k % 2 = 1 THEN k + 1
       ELSE k

RECURSIVE SeqSum(_)
SeqSum(s) == IF s = <<>> THEN 0 ELSE Head(s) + SeqSum(Tail(s))

SeqMax(s) == CHOOSE x \in {s[n] : n \in DOMAIN s} : \A y \in {s[n] : n \in DOMAIN s} : y <= x
SeqMin(s) == CHOOSE x \in {s[n] : n \in DOMAIN s} : \A y \in {s[n] : n \in DOMAIN s} : x <= y

\* the items of s whose index is marked in mask, in order
SelectIdx(s, mask) ==
    LET F[n \in 0..Len(s)] ==
          IF n = 0 THEN <<>>
          ELSE IF mask[n] THEN Append(F[n - 1], s[n]) ELSE F[n - 1]
    IN F[Len(s)]

----------------------------------------------------------------------------
(* _calculate_market_metrics *)

\* statistics.mean / max / min / statistics.stdev of the similarities (in
\* ten-thousandths), each rounded to 3 digits (thousandths)
\* The sample variance is sum((x - mean)^2) / (n - 1), and
\* n * sum((x - mean)^2) is the sum over the pairs j < k of (x_j - x_k)^2.
SimilarityStats(sims) ==
    LET n == Len(sims)
        S == SeqSum(sims)
        D == SeqSum([j \in DOMAIN sims |->
                 SeqSum([k \in DOMAIN sims |->
                    IF j < k THEN (sims[j] - sims[k]) * (sims[j] - sims[k])
                    ELSE 0])])
    IN [avg |-> RoundDiv(S, 10 * n),
        max |-> RoundDiv(SeqMax(sims), 10),
        min |-> RoundDiv(SeqMin(sims), 10),
        std |-> IF n > 1 THEN RoundSqrt(D, 100 * n * (n - 1)) ELSE 0]

\* high quality = GitHub repos with 100+ stars, or high similarity
IsHighQuality(r) ==
    IF r.source = "github" /\ r.stars > 100 THEN TRUE ELSE r.similarity > 7000

SourceDistribution(scored) ==
    [src \in {scored[n].source : n \in DOMAIN scored} |->
        Cardinality({n \in DOMAIN scored : scored[n].source = src})]

_calculate_market_metrics(scored, uniq, sat) ==
    IF scored = <<>>
    THEN [total_competitors |-> 0,
          source_distribution |-> EmptyMap,
          similarity_stats |-> [avg |-> 0, max |-> 0, min |-> 0, std |-> 0],
          uniqueness_score |-> uniq,
          saturation_level |-> sat]
    ELSE [total_competitors |-> Len(scored),
          source_distribution |-> SourceDistribution(scored),
          similarity_stats |->
              SimilarityStats([n \in DOMAIN scored |-> scored[n].similarity]),
          high_quality_competitors |->
              Cardinality({n \in DOMAIN scored : IsHighQuality(scored[n])}),
          uniqueness_score |-> uniq,
          saturation_level |-> sat]

\* market_metrics[key] raises KeyError when the key is not there
HasKey(m, key) == key \in DOMAIN m

----------------------------------------------------------------------------
(* _extract_feature_gaps *)

\* (indicator, category), the indicator as its words
gap_indicators ==
    << [indicator |-> <<"lacks">>, category |-> "missing functionality"],
       [indicator |-> <<"doesn't", "support">>, category |-> "unsupported features"],
       [indicator |-> <<"no", "integration">>, category |-> "integration gaps"],
       [indicator |-> <<"limited">>, category |-> "capability limitations"],
       [indicator |-> <<"basic">>, category |-> "feature depth"],
       [indicator |-> <<"simple">>, category |-> "complexity gaps"],
       [indicator |-> <<"manual">>, category |-> "automation opportunities"] >>

\* str.lower() of one word
Lower(w) ==
    CASE w = "Lacks" -> "lacks"
      [] w = "LIMITED" -> "limited"
      [] w = "Manual" -> "manual"
      [] OTHER -> w

\* the one-word text t occurs inside the (lower-case) word w
WordContains(w, t) ==
    \/ w = t
    \/ <<w, t>> \in {<<"unlimited", "limited">>, <<"basically", "basic">>,
                     <<"simpler", "simple">>, <<"manually", "manual">>,
                     <<"supported", "support">>, <<"integrations", "integration">>}

\* w ends with t / w starts with t
WordEndsWith(w, t) == w = t \/ <<w, t>> \in {<<"unlimited", "limited">>}
WordStartsWith(w, t) ==
    \/ w = t
    \/ <<w, t>> \in {<<"basically", "basic">>, <<"simpler", "simple">>,
                     <<"manually", "manual">>, <<"supported", "support">>,
                     <<"integrations", "integration">>}

\* indicator in comment: substring test on the text whose words are `words`,
\* single spaces between them
InComment(ind, words) ==
    IF Len(ind) = 1
    THEN \E n \in DOMAIN words : WordContains(words[n], ind[1])
    ELSE \E n \in 1..(Len(words) - 1) :
            /\ WordEndsWith(words[n], ind[1])
            /\ WordStartsWith(words[n + 1], ind[2])

\* any(indicator in word for word in words): a word holds no space
InSomeWord(ind, words) ==
    /\ Len(ind) = 1
    /\ \E n \in DOMAIN words : WordContains(words[n], ind[1])

\* feature_mentions[category] += 1 on a Counter kept in insertion order
Increment(counter, category) ==
    IF \E n \in DOMAIN counter : counter[n].feature = category
    THEN [n \in DOMAIN counter |->
            IF counter[n].feature = category
            THEN [counter[n] EXCEPT !.count = @ + 1] ELSE counter[n]]
    ELSE Append(counter, [feature |-> category, count |-> 1])

\* the inner loop over gap_indicators for one comment
RECURSIVE TallyComment(_, _, _)
TallyComment(counter, words, k) ==
    IF k > Len(gap_indicators) THEN counter
    ELSE LET g == gap_indicators[k]
             hit == InComment(g.indicator, words) /\ InSomeWord(g.indicator, words)
         IN TallyComment(IF hit THEN Increment(counter, g.category) ELSE counter,
                         words, k + 1)

RECURSIVE TallyResults(_, _)
TallyResults(counter, scored) ==
    IF scored = <<>> THEN counter
    ELSE TallyResults(
            TallyComment(counter,
                         [n \in DOMAIN Head(scored).comment |-> Lower(Head(scored).comment[n])],
                         1),
            Tail(scored))

\* most_common(n), had it taken the first n categories as counted
MostCommonUnsorted(counter, n) == SubSeq(counter, 1, Min(n, Len(counter)))

\* Counter.most_common(n): by count, largest first, ties in insertion order
RECURSIVE MostCommon(_, _)
MostCommon(counter, n) ==
    IF n = 0 \/ counter = <<>> THEN <<>>
    ELSE LET best == CHOOSE k \in DOMAIN counter :
                        /\ \A m \in DOMAIN counter : counter[m].count <= counter[k].count
                        /\ \A m \in 1..(k - 1) : counter[m].count < counter[k].count
             rest == [m \in 1..(Len(counter) - 1) |->
                        IF m < best THEN counter[m] ELSE counter[m + 1]]
         IN <<counter[best]>> \o MostCommon(rest, n - 1)

FeatureGap(c) ==
    [feature |-> c.feature, frequency |-> c.count,
     confidence |-> Min(900, 400 + c.count * 200)]

MentionedTwice(c) == c.count > 1

_extract_feature_gaps(scored) ==
    LET common == MostCommon(TallyResults(<<>>, scored), 3)
        top == SelectIdx(common, [n \in DOMAIN common |-> MentionedTwice(common[n])])
    IN [n \in DOMAIN top |-> FeatureGap(top[n])]

----------------------------------------------------------------------------
(* _identify_market_gaps *)

Gap(type, confidence, priority, impact, evidence) ==
    [gap_type |-> type, confidence |-> confidence, priority |-> priority,
     potential_impact |-> impact, evidence |-> evidence]

FeatureGapEntry(g) ==
    Gap("Feature Gap", g.confidence, "Medium", "Product Differentiation",
        <<g.feature, g.frequency>>)

\* the Blue Ocean test, had it read the mean instead of the maximum
BlueOceanByAverage(uniq, stats) == uniq > 700 /\ stats.avg < 600

\* Gap 1: high uniqueness + low similarity
BlueOcean(uniq, stats) == uniq > 700 /\ stats.max < 600

_identify_market_gaps(scored, uniq, metrics) ==
    LET stats == metrics.similarity_stats
        github_count == IF "github" \in DOMAIN metrics.source_distribution
                        THEN metrics.source_distribution["github"] ELSE 0
        features == _extract_feature_gaps(scored)
        gaps1 == IF BlueOcean(uniq, stats)
                 THEN <<Gap("Blue Ocean Opportunity", 900, "Very High",
                            "Market Creation", <<uniq, stats.max>>)>>
                 ELSE <<>>
        gaps2 == IF github_count < 3
                 THEN <<Gap("Technical Implementation Gap", 700, "High",
                            "Technical Differentiation", <<github_count>>)>>
                 ELSE <<>>
        gaps3 == [n \in DOMAIN features |-> FeatureGapEntry(features[n])]
        gaps4 == IF stats.std < 150
                 THEN <<Gap("Positioning Opportunity", 600, "Medium",
                            "Market Positioning", <<stats.std>>)>>
                 ELSE <<>>
    IN IF ~HasKey(metrics, "high_quality_competitors")
       THEN Raise("KeyError", "high_quality_competitors")
       ELSE LET hq == metrics.high_quality_competitors
                gaps5 == IF hq < 2
                         THEN <<Gap("Quality Leadership Opportunity", 800, "High",
                                    "Market Leadership", <<hq>>)>>
                         ELSE <<>>
            IN Ok(gaps1 \o gaps2 \o gaps3 \o gaps4 \o gaps5, "gaps")

----------------------------------------------------------------------------
(* _calculate_opportunity_score *)

\* the saturation lookup table, in thousandths of a point
SaturationPoints(sat) ==
    CASE sat = "Low market saturation" -> 15000
      [] sat = "Moderate market saturation" -> 10000
      [] sat = "High market saturation" -> 5000
      [] sat = "Very high market saturation" -> 0
      [] OTHER -> 7500

\* _interpret_opportunity_score(score), score = num / den points
_interpret_opportunity_score(num, den) ==
    IF num >= 85 * den THEN "Exceptional"
    ELSE IF num >= 70 * den THEN "Strong"
    ELSE IF num >= 55 * den THEN "Moderate"
    ELSE IF num >= 40 * den THEN "Limited"
    ELSE "Low"

_calculate_confidence_level(metrics) ==
    LET total_data_points == metrics.total_competitors
        source_diversity == Cardinality(DOMAIN metrics.source_distribution)
    IN IF total_data_points >= 10 /\ source_diversity >= 3 THEN "High confidence"
       ELSE IF total_data_points >= 5 /\ source_diversity >= 2 THEN "Medium confidence"
       ELSE IF total_data_points >= 3 THEN "Low confidence"
       ELSE "Very low confidence"

\* _calculate_opportunity_score, had the final clamp been left out
_calculate_opportunity_score_unclamped(uniq, metrics, sat) ==
    IF ~HasKey(metrics, "high_quality_competitors")
    THEN {Raise("KeyError", "high_quality_competitors")}
    ELSE
    LET total == metrics.total_competitors
        high_quality == metrics.high_quality_competitors
        t == IF total = 0 THEN 1 ELSE total
        den == 1000 * t
        uniqueness_points == uniq * 40 * t
        similarity_points == (1000 - metrics.similarity_stats.avg) * 25 * t
        competition_points == IF total = 0 THEN 20000
                              ELSE (total - high_quality) * 20000
        saturation_points == SaturationPoints(sat) * t
        final_score == uniqueness_points + similarity_points
                       + competition_points + saturation_points
    IN {Ok([overall_score |-> o,
            components |->
               [uniqueness_contribution |-> u,
                similarity_advantage |-> s,
                competition_advantage |-> c,
                market_saturation_boost |-> m],
            interpretation |-> _interpret_opportunity_score(final_score, den),
            confidence_level |-> _calculate_confidence_level(metrics)],
           "score") :
          o \in Rounds(final_score * 10, den),
          u \in Rounds(uniqueness_points * 10, den),
          s \in Rounds(similarity_points * 10, den),
          c \in Rounds(competition_points * 10, den),
          m \in Rounds(saturation_points * 10, den)}

\* The four components as fractions over the common denominator 1000 * t,
\* t = total_competitors (1 when there is none).  The result is the set of
\* values the function can return: where a rounded value lies exactly half
\* way between two tenths, the binary floating-point sum decides which
\* neighbour round() yields, so both are possible.
_calculate_opportunity_score(uniq, metrics, sat) ==
    IF ~HasKey(metrics, "high_quality_competitors")
    THEN {Raise("KeyError", "high_quality_competitors")}
    ELSE
    LET total == metrics.total_competitors
        high_quality == metrics.high_quality_competitors
        t == IF total = 0 THEN 1 ELSE total
        den == 1000 * t
        uniqueness_points == uniq * 40 * t
        similarity_points == (1000 - metrics.similarity_stats.avg) * 25 * t
        competition_points == IF total = 0 THEN 20000
                              ELSE (total - high_quality) * 20000
        saturation_points == SaturationPoints(sat) * t
        raw_score == uniqueness_points + similarity_points
                     + competition_points + saturation_points
        final_score == Min(100 * den, Max(0, raw_score))
    IN {Ok([overall_score |-> o,
            components |->
               [uniqueness_contribution |-> u,
                similarity_advantage |-> s,
                competition_advantage |-> c,
                market_saturation_boost |-> m],
            interpretation |-> _interpret_opportunity_score(final_score, den),
            confidence_level |-> _calculate_confidence_level(metrics)],
           "score") :
          o \in Rounds(final_score * 10, den),
          u \in Rounds(uniqueness_points * 10, den),
          s \in Rounds(similarity_points * 10, den),
          c \in Rounds(competition_points * 10, den),
          m \in Rounds(saturation_points * 10, den)}

----------------------------------------------------------------------------
(* _determine_market_position *)

\* _determine_market_position, had the competitor count been tested before
\* the Differentiator rule
_determine_market_position_count_first(uniq, metrics) ==
    LET avg_similarity == metrics.similarity_stats.avg
        total_competitors == metrics.total_competitors
    IN IF uniq > 800 THEN "Pioneer"
       ELSE IF total_competitors < 5 THEN "Fast follower"
       ELSE IF uniq > 600 /\ avg_similarity < 500 THEN "Differentiator"
       ELSE IF avg_similarity < 400 THEN "Niche specialist"
       ELSE "Cost leader"

_determine_market_position(uniq, metrics) ==
    LET avg_similarity == metrics.similarity_stats.avg
        total_competitors == metrics.total_competitors
    IN IF uniq > 800 THEN "Pioneer"
       ELSE IF uniq > 600 /\ avg_similarity < 500 THEN "Differentiator"
       ELSE IF total_competitors < 5 THEN "Fast follower"
       ELSE IF avg_similarity < 400 THEN "Niche specialist"
       ELSE "Cost leader"

----------------------------------------------------------------------------
(* _analyze_competitive_landscape *)

\* the threat level, had the stars of a GitHub record replaced the level
\* set from its similarity
ThreatLevelFromStars(r) ==
    LET by_similarity == IF r.similarity > 7000 THEN "High"
                         ELSE IF r.similarity > 5000 THEN "Medium"
                         ELSE "Low"
    IN IF r.source = "github"
       THEN (IF r.stars > 1000 THEN "High"
             ELSE IF r.stars > 100 THEN "Medium" ELSE "Low")
       ELSE by_similarity

\* threat level after the similarity test and the GitHub stars test
ThreatLevel(r) ==
    LET by_similarity == IF r.similarity > 7000 THEN "High"
                         ELSE IF r.similarity > 5000 THEN "Medium"
                         ELSE "Low"
    IN IF r.source = "github" /\ r.stars > 1000
       THEN (IF by_similarity # "High" THEN "High" ELSE by_similarity)
       ELSE by_similarity

QualityIndicators(r) ==
    (IF r.similarity > 7000 THEN <<<<"High similarity", r.similarity>>>> ELSE <<>>)
    \o (IF r.source = "github" /\ r.stars > 100
        THEN <<<<"GitHub stars", r.stars>>>> ELSE <<>>)

CompetitorInfo(r) ==
    [name |-> r.title, source |-> r.source, similarity |-> r.similarity,
     threat_level |-> ThreatLevel(r), quality_indicators |-> QualityIndicators(r),
     analysis |-> r.comment]

\* the market_leaders test, had it been an if instead of an elif
IsLeaderAtAnyLevel(c) == c.quality_indicators # <<>>

IsThreat(c) == c.threat_level = "High"
IsLeader(c) == c.threat_level # "High" /\ c.quality_indicators # <<>>
IsWeak(c) == c.threat_level # "High" /\ c.quality_indicators = <<>>

_analyze_competitive_landscape(scored) ==
    LET infos == [n \in DOMAIN scored |-> CompetitorInfo(scored[n])] IN
    IF scored = <<>>
    THEN [competitive_threats |-> <<>>, market_leaders |-> <<>>,
          weak_competitors |-> <<>>]
    ELSE [competitive_threats |->
              SelectIdx(infos, [n \in DOMAIN infos |-> IsThreat(infos[n])]),
          market_leaders |->
              SelectIdx(infos, [n \in DOMAIN infos |-> IsLeader(infos[n])]),
          weak_competitors |->
              SelectIdx(infos, [n \in DOMAIN infos |-> IsWeak(infos[n])]),
          threat_summary |->
              Cardinality({n \in DOMAIN infos : IsThreat(infos[n])})]

----------------------------------------------------------------------------
(* _generate_strategic_recommendations *)

Recommendation(type, priority, about) ==
    [type |-> type, priority |-> priority, about |-> about]

IsHighPriority(gap) == gap.priority \in {"Very High", "High"}

GapRecommendation(gap) ==
    Recommendation("Product Development", gap.priority, gap.gap_type)

\* _generate_strategic_recommendations, had the threat test been >= 3
_generate_strategic_recommendations_from_three(a) ==
    LET opportunity_score == a.opportunity_score.overall_score
        competitive_threats == Len(a.competitive_analysis.competitive_threats)
        high_priority_gaps ==
            SelectIdx(a.gaps_identified,
                      [n \in DOMAIN a.gaps_identified |-> IsHighPriority(a.gaps_identified[n])])
        top == SubSeq(high_priority_gaps, 1, Min(3, Len(high_priority_gaps)))
    IN (IF opportunity_score > 750
        THEN <<Recommendation("Strategic Timing", "Very High", "move aggressively")>>
        ELSE IF opportunity_score > 500
        THEN <<Recommendation("Strategic Timing", "High", "go-to-market")>>
        ELSE <<>>)
       \o [n \in DOMAIN top |-> GapRecommendation(top[n])]
       \o (IF competitive_threats >= 3
           THEN <<Recommendation("Competitive Strategy", "High", "differentiation")>>
           ELSE IF competitive_threats = 0
           THEN <<Recommendation("Market Education", "Medium", "category creation")>>
           ELSE <<>>)
       \o <<Recommendation("Market Positioning", "Medium", a.market_position)>>
       \o (IF opportunity_score > 600
           THEN <<Recommendation("Resource Allocation", "Medium", "investment")>>
           ELSE <<>>)

_generate_strategic_recommendations(a) ==
    LET opportunity_score == a.opportunity_score.overall_score
        competitive_threats == Len(a.competitive_analysis.competitive_threats)
        high_priority_gaps ==
            SelectIdx(a.gaps_identified,
                      [n \in DOMAIN a.gaps_identified |-> IsHighPriority(a.gaps_identified[n])])
        top == SubSeq(high_priority_gaps, 1, Min(3, Len(high_priority_gaps)))
    IN (IF opportunity_score > 750
        THEN <<Recommendation("Strategic Timing", "Very High", "move aggressively")>>
        ELSE IF opportunity_score > 500
        THEN <<Recommendation("Strategic Timing", "High", "go-to-market")>>
        ELSE <<>>)
       \o [n \in DOMAIN top |-> GapRecommendation(top[n])]
       \o (IF competitive_threats > 3
           THEN <<Recommendation("Competitive Strategy", "High", "differentiation")>>
           ELSE IF competitive_threats = 0
           THEN <<Recommendation("Market Education", "Medium", "category creation")>>
           ELSE <<>>)
       \o <<Recommendation("Market Positioning", "Medium", a.market_position)>>
       \o (IF opportunity_score > 600
           THEN <<Recommendation("Resource Allocation", "Medium", "investment")>>
           ELSE <<>>)

----------------------------------------------------------------------------
(* analyze_market_gaps *)

MaxRecords == 3

Rec(title, source, similarity, stars, comment) ==
    [title |-> title, source |-> source, similarity |-> similarity,
     stars |-> stars, comment |-> comment]

\* competitor records as similarity scoring hands them over; stars = 0 also
\* stands for a record without metadata.stars
ScoredPool ==
    {Rec("A", "ddg", 1000, 0, <<"this", "tool", "lacks", "integrations">>),
     Rec("B", "ddg", 2000, 0, <<"Lacks", "support", "for", "teams">>),
     Rec("C", "github", 3000, 5000, <<"great", "tool">>),
     Rec("D", "github", 6000, 500, <<"limited", "and", "basic">>),
     Rec("E", "ddg", 8000, 0, <<"doesn't", "support", "teams">>),
     Rec("F", "github", 8000, 50, <<"manual", "and", "LIMITED">>),
     Rec("G", "github", 14000, 2000, <<"great", "tool">>),
     Rec("H", "ddg", -1000, 0, <<"basically", "manual">>),
     Rec("I", "ddg", 5996, 0, <<"simple", "and", "manual">>)}

ScoredLists == UNION {[1..n -> ScoredPool] : n \in 0..MaxRecords}

Uniqueness == {-500, 0, 500, 650, 750, 850, 1000, 1500}

Saturations ==
    {"Low market saturation", "Moderate market saturation",
     "High market saturation", "Very high market saturation", "unknown"}

\* the values datetime.now() can yield
Clock == {1, 2}

InitScore ==
    /\ IdleRunner
    /\ IdleAgents
    /\ IdleTemplate
    /\ scored_results \in ScoredLists
    /\ uniqueness_score \in Uniqueness
    /\ saturation \in Saturations
    /\ apc = "metrics"
    /\ analysis = EmptyMap
    /\ response = NoneV
    /\ first = NoneV

\* except Exception as e: return {"error": str(e), "success": False}
Failed(r) == [error |-> <<r.err, r.self>>, success |-> FALSE]

\* market_metrics = _calculate_market_metrics(...)
CalcMetrics ==
    /\ apc = "metrics"
    /\ analysis' = [market_metrics |->
           _calculate_market_metrics(scored_results, uniqueness_score, saturation)]
    /\ apc' = "gaps"
    /\ UNCHANGED <<scored_results, uniqueness_score, saturation, response, first>>
    /\ UNCHANGED <<runnerVars, templateVars, agentVars>>

\* gaps_identified = _identify_market_gaps(...)
IdentifyGaps ==
    /\ apc = "gaps"
    /\ LET r == _identify_market_gaps(scored_results, uniqueness_score,
                                      analysis.market_metrics) IN
       IF r.err # "none"
       THEN /\ response' = Failed(r)
            /\ apc' = "done"
            /\ analysis' = analysis
       ELSE /\ analysis' = analysis @@ [gaps_identified |-> r.val]
            /\ apc' = "score"
            /\ response' = response
    /\ UNCHANGED <<scored_results, uniqueness_score, saturation, first>>
    /\ UNCHANGED <<runnerVars, templateVars, agentVars>>

\* a call repeated on the same arguments evaluates the same floating-point
\* expressions on the same operands, so it rounds as the call before it did
RoundsAsBefore(r) ==
    IF first = NoneV THEN TRUE
    ELSE IF ~first.success \/ r.err # "none" THEN TRUE
    ELSE r.val = first.market_analysis.opportunity_score

\* opportunity_score = _calculate_opportunity_score(...)
CalcOpportunity ==
    /\ apc = "score"
    /\ \E r \in _calculate_opportunity_score(uniqueness_score,
                                             analysis.market_metrics, saturation) :
       /\ RoundsAsBefore(r)
       /\ IF r.err # "none"
          THEN /\ response' = Failed(r)
               /\ apc' = "done"
               /\ analysis' = analysis
          ELSE /\ analysis' = analysis @@ [opportunity_score |-> r.val]
               /\ apc' = "position"
               /\ response' = response
    /\ UNCHANGED <<scored_results, uniqueness_score, saturation, first>>
    /\ UNCHANGED <<runnerVars, templateVars, agentVars>>

\* market_position = _determine_market_position(...)
DeterminePosition ==
    /\ apc = "position"
    /\ analysis' = analysis @@ [market_position |->
           _determine_market_position(uniqueness_score, analysis.market_metrics)]
    /\ apc' = "landscape"
    /\ UNCHANGED <<scored_results, uniqueness_score, saturation, response, first>>
    /\ UNCHANGED <<runnerVars, templateVars, agentVars>>

\* competitive_analysis = _analyze_competitive_landscape(scored_results)
AnalyzeLandscape ==
    /\ apc = "landscape"
    /\ analysis' = analysis @@ [competitive_analysis |->
           _analyze_competitive_landscape(scored_results)]
    /\ apc' = "respond"
    /\ UNCHANGED <<scored_results, uniqueness_score, saturation, response, first>>
    /\ UNCHANGED <<runnerVars, templateVars, agentVars>>

\* return {..., "analysis_timestamp": datetime.now().isoformat(), ...}
Respond ==
    /\ apc = "respond"
    /\ \E now \in Clock :
          response' = [server_name |-> "Enhanced Research Gap Detection Server",
                       analysis_timestamp |-> now,
                       market_analysis |-> analysis,
                       recommendations |-> _generate_strategic_recommendations(analysis),
                       success |-> TRUE]
    /\ apc' = "done"
    /\ UNCHANGED <<scored_results, uniqueness_score, saturation, analysis, first>>
    /\ UNCHANGED <<runnerVars, templateVars, agentVars>>

\* the tool is called once more with the arguments of the call that returned
CallAgain ==
    /\ apc = "done"
    /\ first = NoneV
    /\ first' = response
    /\ apc' = "metrics"
    /\ analysis' = EmptyMap
    /\ response' = NoneV
    /\ UNCHANGED <<scored_results, uniqueness_score, saturation>>
    /\ UNCHANGED <<runnerVars, templateVars, agentVars>>

NextScore ==
    \/ CalcMetrics
    \/ IdentifyGaps
    \/ CalcOpportunity
    \/ DeterminePosition
    \/ AnalyzeLandscape
    \/ Respond

SpecScore == InitScore /\ [][NextScore]_vars

----------------------------------------------------------------------------
(* analyze_market_gaps on a crowded market: many records of few kinds *)

MaxCrowd == 5

CrowdPool == {r \in ScoredPool : r.title \in {"A", "D", "E", "H", "I"}}

CrowdUniqueness == {500, 650, 850}

CrowdSaturations == {"Low market saturation", "Very high market saturation"}

CrowdLists == UNION {[1..n -> CrowdPool] : n \in 0..MaxCrowd}

InitCrowded ==
    /\ IdleRunner
    /\ IdleAgents
    /\ IdleTemplate
    /\ scored_results \in CrowdLists
    /\ uniqueness_score \in CrowdUniqueness
    /\ saturation \in CrowdSaturations
    /\ apc = "metrics"
    /\ analysis = EmptyMap
    /\ response = NoneV
    /\ first = NoneV

SpecCrowded == InitCrowded /\ [][NextScore]_vars

----------------------------------------------------------------------------
(* analyze_market_gaps called twice on the same arguments *)

MaxRepeatRecords == 2

RepeatLists == UNION {[1..n -> ScoredPool] : n \in 0..MaxRepeatRecords}

InitRepeat ==
    /\ IdleRunner
    /\ IdleAgents
    /\ IdleTemplate
    /\ scored_results \in RepeatLists
    /\ uniqueness_score \in Uniqueness
    /\ saturation \in Saturations
    /\ apc = "metrics"
    /\ analysis = EmptyMap
    /\ response = NoneV
    /\ first = NoneV

NextRepeat ==
    \/ CallAgain
    \/ NextScore

SpecRepeat == InitRepeat /\ [][NextRepeat]_vars

----------------------------------------------------------------------------
(* score_similarity of src/agents/similarity_scorer/similarity_scorer.py   *)
(*                                                                         *)
(* An LLM reply is the sequence of its lexical tokens: prose, the two      *)
(* braces, and whole members  "key": value  of a JSON object.  JSON values *)
(* are [num |-> n] (a number, n counting hundredths), [text |-> s] (a      *)
(* string), [list |-> q] (an array) and NoneV (null).                      *)

NumV(n) == [num |-> n]
TextV(s) == [text |-> s]
ListV(q) == [list |-> q]
IsNum(v) == "num" \in DOMAIN v
IsList(v) == "list" \in DOMAIN v

Prose == [t |-> "prose"]
Open == [t |-> "{"]
Close == [t |-> "}"]
Member(key, val) == [t |-> "member", key |-> key, val |-> val]

\* d.get(key, default)
DictGet(d, key, default) == IF key \in DOMAIN d THEN d[key] ELSE default

\* text.index('{'): the position of the first opening brace
Index(text) ==
    IF \E k \in DOMAIN text : text[k] = Open
    THEN Ok(CHOOSE k \in DOMAIN text :
               text[k] = Open /\ \A j \in 1..(k - 1) : text[j] # Open, NoneV)
    ELSE Raise("ValueError", NoneV)

\* json.loads(s): s must be exactly one object, an opening brace, members
\* and the closing brace; of two members with one key the later wins
json_loads(s) ==
    IF /\ Len(s) >= 2
       /\ s[1] = Open
       /\ s[Len(s)] = Close
       /\ \A k \in 2..(Len(s) - 1) : s[k].t = "member"
    THEN LET at == 2..(Len(s) - 1)
             last(key) == CHOOSE k \in at :
                             s[k].key = key /\ \A j \in (k + 1)..(Len(s) - 1) : s[j].key # key
         IN Ok([key \in {s[k].key : k \in at} |-> s[last(key)].val], NoneV)
    ELSE Raise("JSONDecodeError", NoneV)

\* what client.chat.completions.create does: it raises, or it returns a
\* message whose content is None or a text
ApiError == [api |-> "error"]
Reply(content) == [api |-> "ok", content |-> content]

Replies ==
    { ApiError,
      Reply(NoneV),
      Reply(TextV(<<Prose>>)),
      Reply(TextV(<<Open, Member("similarity", NumV(90)), Member("comment", TextV("close")), Close>>)),
      Reply(TextV(<<Prose, Open, Member("similarity", NumV(20)), Member("comment", TextV("far")), Close>>)),
      Reply(TextV(<<Open, Member("similarity", NumV(90)), Close, Prose>>)),
      Reply(TextV(<<Open, Member("similarity", NumV(20))>>)),
      Reply(TextV(<<Open, Member("comment", TextV("far")), Close>>)),
      Reply(TextV(<<Open, Member("similarity", TextV("high")), Member("comment", TextV("close")), Close>>)),
      Reply(TextV(<<Open, Member("similarity", NoneV), Close>>)) }

\* the except branch, lines 43-47
ScoringFailed(element) ==
    [similarity |-> NumV(0), comment |-> TextV("Scoring failed")] @@ element

\* the try block, lines 32-42, on one element
TryScore(element, reply) ==
    IF reply.api = "error" THEN ScoringFailed(element)
    ELSE IF reply.content = NoneV THEN ScoringFailed(element)
    ELSE LET text == reply.content.text
             json_start == Index(text)
         IN IF json_start.err # "none" THEN ScoringFailed(element)
            ELSE LET scored == json_loads(SubSeq(text, json_start.val, Len(text)))
                 IN IF scored.err # "none" THEN ScoringFailed(element)
                    ELSE [similarity |-> DictGet(scored.val, "similarity", NumV(0)),
                          comment |-> DictGet(scored.val, "comment", TextV(""))] @@ element

\* ', '.join(parsed_idea.get(key, [])) of the prompt: a TypeError unless the
\* value can be iterated
JoinRaises(idea, key) == ~IsList(DictGet(idea, key, ListV(<<>>)))

PromptRaises(idea) == JoinRaises(idea, "tags") \/ JoinRaises(idea, "core_features")

\* a parsed idea as parse_idea hands it over: the parsed JSON object, or {}
Ideas ==
    { [description |-> TextV("pricing tool"), tags |-> ListV(<<"ai">>),
       core_features |-> ListV(<<"scraping">>)],
      EmptyMap,
      [description |-> TextV("pricing tool"), tags |-> NoneV,
       core_features |-> ListV(<<"scraping">>)] }

MaxMarketResults == 3

MarketPool ==
    { [source |-> "ddg", title |-> "P", snippet |-> "a pricing tool"],
      [source |-> "github", title |-> "Q", snippet |-> "a scraper"] }

MarketLists == UNION {[1..n -> MarketPool] : n \in 0..MaxMarketResults}

InitSimilarity ==
    /\ IdleRunner
    /\ IdleTemplate
    /\ IdleScore
    /\ IdleDdg
    /\ parsed_idea \in Ideas
    /\ market_results \in MarketLists
    /\ sim_results = <<>>
    /\ spc = "loop"
    /\ llm = <<>>
    /\ sret = NoneV

\* for result in market_results: prompt = f"""..."""
BuildPrompt ==
    /\ spc = "loop"
    /\ Len(sim_results) < Len(market_results)
    /\ IF PromptRaises(parsed_idea)
       THEN /\ spc' = "raised"
            /\ sret' = Raise("TypeError", NoneV)
       ELSE /\ spc' = "ask"
            /\ UNCHANGED sret
    /\ UNCHANGED <<parsed_idea, market_results, sim_results, llm>>
    /\ UNCHANGED <<runnerVars, templateVars, scoreVars, ddgVars>>

\* try: ... except Exception: ...; scored_results.append(result)
\* result is the element of market_results itself, written in place
ScoreResult ==
    /\ spc = "ask"
    /\ \E reply \in Replies :
          LET k == Len(sim_results) + 1
              scored == TryScore(market_results[k], reply)
          IN /\ market_results' = [market_results EXCEPT ![k] = scored]
             /\ sim_results' = Append(sim_results, scored)
             /\ llm' = Append(llm, reply)
    /\ spc' = "loop"
    /\ UNCHANGED <<parsed_idea, sret>>
    /\ UNCHANGED <<runnerVars, templateVars, scoreVars, ddgVars>>

SaturationLabel(S, n) ==
    IF S > 65 * n THEN "High market saturation"
    ELSE IF S > 35 * n THEN "Moderate market saturation"
    ELSE "Low market saturation"

\* lines 51-66: max() and sum() raise a TypeError on a similarity that is
\* not a number; uniqueness_score counts hundredths
Aggregate ==
    /\ spc = "loop"
    /\ Len(sim_results) = Len(market_results)
    /\ LET similarities == [k \in DOMAIN sim_results |-> sim_results[k].similarity]
           n == IF similarities = <<>> THEN 1 ELSE Len(similarities)
       IN IF \E k \in DOMAIN similarities : ~IsNum(similarities[k])
          THEN /\ spc' = "raised"
               /\ sret' = Raise("TypeError", NoneV)
          ELSE LET nums == [k \in DOMAIN similarities |-> similarities[k].num]
                   max_sim == IF nums = <<>> THEN 0 ELSE SeqMax(nums)
                   S == SeqSum(nums)
               IN /\ spc' = "returned"
                  /\ \E u \in Rounds((100 - max_sim) * (100 * n - S), 100 * n) :
                        sret' = Ok([scored_results |-> sim_results,
                                    uniqueness_score |-> u,
                                    saturation |-> SaturationLabel(S, n)], NoneV)
    /\ UNCHANGED <<parsed_idea, market_results, sim_results, llm>>
    /\ UNCHANGED <<runnerVars, templateVars, scoreVars, ddgVars>>

NextSimilarity ==
    \/ BuildPrompt
    \/ ScoreResult
    \/ Aggregate

SpecSimilarity == InitSimilarity /\ [][NextSimilarity]_vars

----------------------------------------------------------------------------
(* search_ddg of src/agents/market_search/_ddg_search.py                   *)
(*                                                                         *)
(* A string is known by its length only: [len |-> n]; None is NoneV.       *)
(* At each attempt the backend (the DDGS constructor and the generator     *)
(* ddgs.text) yields some hits and then either is exhausted or raises.     *)

max_attempts == 5

MaxHits == 2

LenV(n) == [len |-> n]

\* the k-th hit the backend has for the query: bodies are missing, short,
\* or longer than 200 characters
Hit(k) ==
    [title |-> LenV(10 + k), href |-> LenV(30),
     body |-> CASE k % 3 = 1 -> LenV(250)
                [] k % 3 = 2 -> NoneV
                [] OTHER -> LenV(200)]

\* (r.get("body")[:200] + '...') if r.get("body") and len(r.get("body")) > 200
\* else r.get("body")
Snippet(body) ==
    IF body # NoneV /\ body.len > 200 THEN LenV(Min(body.len, 200) + 3)
    ELSE body

\* the dict appended for hit r, lines 13-19
Converted(r) ==
    [source |-> "ddg", title |-> r.title, url |-> r.href,
     snippet |-> Snippet(r.body), metadata |-> EmptyMap]

\* the exceptions the backend raises, and those  except Exception  catches
BackendErrors == {"DuckDuckGoSearchException", "RatelimitException"}
Caught(e) == e \in BackendErrors \cup {"AttributeError", "TypeError"}

\* what one attempt can do: yield the first n hits, then end or raise
Outcomes(limit) ==
    {[yielded |-> n, err |-> e] : n \in 0..limit, e \in {"none"} \cup BackendErrors}

InitDdg ==
    /\ IdleRunner
    /\ IdleTemplate
    /\ IdleScore
    /\ IdleSimilarity
    /\ max_results \in 1..MaxHits
    /\ attempt = 0
    /\ results = <<>>
    /\ dpc = "try"
    /\ backend = <<>>
    /\ dret = NoneV

\* had the break on line 20 been left out
AttemptWithoutBreak ==
    /\ dpc = "try"
    /\ \E o \in Outcomes(max_results) :
          /\ results' = results \o [k \in 1..o.yielded |-> Converted(Hit(k))]
          /\ backend' = Append(backend, o)
          /\ IF o.err = "none"
             THEN /\ attempt' = attempt + 1
                  /\ dpc' = IF attempt + 1 < max_attempts THEN "try" ELSE "return"
                  /\ UNCHANGED dret
             ELSE IF Caught(o.err)
             THEN /\ dpc' = "except"
                  /\ UNCHANGED <<attempt, dret>>
             ELSE /\ dpc' = "raised"
                  /\ dret' = Raise(o.err, NoneV)
                  /\ UNCHANGED attempt
    /\ UNCHANGED max_results
    /\ UNCHANGED <<runnerVars, templateVars, scoreVars, simVars>>

\* the try block of one pass of  for attempt in range(max_attempts),
\* lines 10-20: every hit yielded before an exception stays in results
Attempt ==
    /\ dpc = "try"
    /\ \E o \in Outcomes(max_results) :
          /\ results' = results \o [k \in 1..o.yielded |-> Converted(Hit(k))]
          /\ backend' = Append(backend, o)
          /\ IF o.err = "none"
             THEN /\ dpc' = "return"
                  /\ UNCHANGED <<attempt, dret>>
             ELSE IF Caught(o.err)
             THEN /\ dpc' = "except"
                  /\ UNCHANGED <<attempt, dret>>
             ELSE /\ dpc' = "raised"
                  /\ dret' = Raise(o.err, NoneV)
                  /\ UNCHANGED attempt
    /\ UNCHANGED max_results
    /\ UNCHANGED <<runnerVars, templateVars, scoreVars, simVars>>

\* the except branch, lines 22-25: sleep, then the next pass of the loop,
\* or past the loop after the last pass
Backoff ==
    /\ dpc = "except"
    /\ attempt' = attempt + 1
    /\ dpc' = IF attempt + 1 < max_attempts THEN "try" ELSE "return"
    /\ UNCHANGED <<max_results, results, backend, dret>>
    /\ UNCHANGED <<runnerVars, templateVars, scoreVars, simVars>>

\* return results
ReturnResults ==
    /\ dpc = "return"
    /\ dret' = Ok(results, NoneV)
    /\ dpc' = "returned"
    /\ UNCHANGED <<max_results, attempt, results, backend>>
    /\ UNCHANGED <<runnerVars, templateVars, scoreVars, simVars>>

NextDdg ==
    \/ Attempt
    \/ Backoff
    \/ ReturnResults

\* search_ddg runs on one thread: a statement that can run does run
SpecDdg == InitDdg /\ [][NextDdg]_vars /\ WF_vars(NextDdg)

----------------------------------------------------------------------------
(* Properties of run_flow (checked under Spec) *)

StepIdsUpTo(n) == {flow[j].id : j \in 1..n}

\* the last of the first n steps that carries the id
LastWithId(id, n) ==
    CHOOSE j \in 1..n : flow[j].id = id /\ \A m \in (j + 1)..n : flow[m].id # id

OutputRecord(v) == DictV("output" :> v)

\* the entry recorded for id is {output: what the last step with that id returned}
Recorded(steps, id, n) ==
    /\ id \in DOMAIN steps.dict
    /\ PyEq(steps.dict[id], OutputRecord(calls[LastWithId(id, n)].ret))

\* C1: in a flow in which no step fails, every step's callable is invoked
\* exactly once and in the declared order (the k-th invocation is step k, with
\* the callable step k names), the callable of step i is invoked only when
\* the outputs of steps 1..i-1 have been recorded, and run_flow returns the
\* steps mapping holding {output: return value} for every step id.
C1_EachStepOnceInOrder ==
    /\ \A k \in 1..Len(calls) :
          /\ calls[k].step = k
          /\ calls[k].fn = flow[k].uses[Len(flow[k].uses)]
    /\ pc = "call" =>
          /\ Len(calls) = i - 1
          /\ \A id \in StepIdsUpTo(i - 1) : Recorded(ctx.steps, id, i - 1)
    /\ pc = "returned" =>
          /\ Len(calls) = Len(flow)
          /\ DOMAIN result.dict = StepIdsUpTo(Len(flow))
          /\ \A id \in StepIdsUpTo(Len(flow)) : Recorded(result, id, Len(flow))

C1_Witness ==
    /\ pc = "returned"
    /\ Len(flow) = 3
    /\ Len(calls) = 3
    /\ Cardinality(StepIdsUpTo(3)) = 3

\* C2: fail-fast.  Once a step has failed (import, template resolution or a
\* raising callable) run_flow is left by the exception: nothing is returned,
\* the failing step's callable was invoked at most once, no later step was
\* invoked, and a raising invocation is the last invocation of the run.
C2_FailFast ==
    /\ error # "none" => pc = "raised"
    /\ pc = "raised" =>
          /\ error # "none"
          /\ result = NoneV
          /\ Len(calls) <= i
          /\ \A k \in 1..Len(calls) : calls[k].step = k
    /\ \A k \in 1..Len(calls) :
          /\ import_func(flow[k].uses).err = "none"
          /\ calls[k].raised => (k = Len(calls) /\ pc = "raised")
    /\ (i >= 1 /\ pc # "import" /\ import_func(flow[i].uses).err # "none")
          => pc = "raised"
    /\ pc = "returned" =>
          \A k \in 1..Len(flow) :
             import_func(flow[k].uses).err = "none" /\ ~calls[k].raised

C2_Witness ==
    /\ pc = "raised"
    /\ Len(flow) = 3
    /\ i = 2
    /\ Len(calls) = 2
    /\ calls[2].raised

\* the argument is the template ${{ steps.<id>.output }}
IsOutputRef(val, id) == val = Tmpl(<<"steps", id, "output">>)

ArgsOf(n) == {flow[n].args[k] : k \in 1..Len(flow[n].args)}

\* C3: an argument ${{ steps.<id>.output }} naming an earlier step resolves
\* to the value that step's callable returned, and that value is what the
\* callable of the reading step is passed.
C3_OutputForwarded ==
    \A a \in (IF i >= 1 THEN ArgsOf(i) ELSE {}) :
       \A id \in StepIdsUpTo(i - 1) :
          IsOutputRef(a.val, id) =>
             /\ pc = "args" =>
                   LET r == eval_template(a.val, ctx) IN
                   /\ r.err = "none"
                   /\ PyEq(r.val, calls[LastWithId(id, i - 1)].ret)
             /\ pc = "call" =>
                   PyEq(args[a.name], calls[LastWithId(id, i - 1)].ret)

\* the dotted path of a template rooted at inputs or steps
TemplateExpr(val) == NoSpaces(Slice(val.str, 3, 2))

IsPathTemplate(val) ==
    /\ IsTemplate(val)
    /\ IsDottedPath(TemplateExpr(val))
    /\ Head(TemplateExpr(val)) \in {"inputs", "steps"}

TemplateRoot(val) == Head(PathNames(TemplateExpr(val)))
TemplateKeys(val) == Tail(PathNames(TemplateExpr(val)))

\* every key of the path is present in the mapping it is applied to
RECURSIVE Indexable(_, _)
Indexable(m, path) ==
    \/ path = <<>>
    \/ /\ IsDict(m)
       /\ Head(path) \in DOMAIN m.dict
       /\ Indexable(m.dict[Head(path)], Tail(path))

\* m[k1][k2]...
RECURSIVE IndexPath(_, _)
IndexPath(m, path) ==
    IF path = <<>> THEN m ELSE IndexPath(m.dict[Head(path)], Tail(path))

\* the path reaches a mapping that does not hold the next key
RECURSIVE AbsentKey(_, _)
AbsentKey(m, path) ==
    /\ path # <<>>
    /\ IsDict(m)
    /\ \/ Head(path) \notin DOMAIN m.dict
       \/ AbsentKey(m.dict[Head(path)], Tail(path))

\* C5: a template whose path names a key absent from the context makes
\* resolution fail (any exception is accepted here as the lookup error), so
\* the step's callable is never invoked with a substituted value.
C5_MissingKeyFails ==
    \A a \in (IF i >= 1 THEN ArgsOf(i) ELSE {}) :
       (IsPathTemplate(a.val)
          /\ AbsentKey(ctx[TemplateRoot(a.val)], TemplateKeys(a.val))) =>
             /\ pc = "args" => eval_template(a.val, ctx).err # "none"
             /\ pc \notin {"call", "store"}
             /\ Len(calls) < i

UsesOf(n) == flow[n].uses[Len(flow[n].uses)]

\* a step that cannot fail on its own: importable, not raising, and reading
\* nothing but the flow's inputs
Benign(n) ==
    /\ import_func(flow[n].uses).err = "none"
    /\ UsesOf(n) \in {"pure", "sentinel"}
    /\ \A a \in ArgsOf(n) : a.val = Tmpl(<<"inputs", "idea">>)

\* C7: an error sentinel returned by a callable is recorded as that step's
\* output like any other value, and the remaining steps are executed in
\* order: a flow of steps that cannot fail on their own always runs to its
\* end, sentinel or not.
C7_SentinelIsAnOutput ==
    /\ \A k \in 1..Len(calls) :
          calls[k].fn = "sentinel" =>
             /\ calls[k].ret = ErrorSentinel
             /\ ~calls[k].raised
             /\ (k < i \/ pc \in {"loop", "returned"}) =>
                   (LastWithId(flow[k].id, Len(calls)) = k =>
                       /\ flow[k].id \in DOMAIN ctx.steps.dict
                       /\ PyEq(ctx.steps.dict[flow[k].id], OutputRecord(ErrorSentinel)))
    /\ (pc = "store" /\ func = "sentinel") => (output = ErrorSentinel /\ error = "none")
    /\ (\A n \in 1..Len(flow) : Benign(n)) =>
          /\ pc # "raised"
          /\ pc = "returned" =>
                /\ Len(calls) = Len(flow)
                /\ \A k \in 1..Len(calls) : calls[k].step = k

C7_Witness ==
    /\ pc = "returned"
    /\ Len(flow) = 3
    /\ UsesOf(1) = "sentinel"
    /\ Len(calls) = 3
    /\ calls[3].fn = "pure"
    /\ PyEq(result.dict[flow[1].id], OutputRecord(ErrorSentinel))

\* the argument is a template steps.<id>...
RefersToStep(val) ==
    /\ IsPathTemplate(val)
    /\ TemplateRoot(val) = "steps"
    /\ TemplateKeys(val) # <<>>

\* step n reads a step that has not completed when n starts: a later step,
\* n itself or an id no step carries
ReadsAhead(n) ==
    \E a \in ArgsOf(n) :
       /\ RefersToStep(a.val)
       /\ Head(TemplateKeys(a.val)) \notin StepIdsUpTo(n - 1)

\* C19: a step k with an argument steps.<id>... whose <id> is not the id of
\* a completed step makes run_flow fail while it resolves the arguments of
\* step k (any exception is accepted here as the lookup error): the callable
\* of step k is never invoked, run_flow does not return, and the steps before
\* k were invoked in declared order.
C19_ForwardReferenceFails ==
    \A n \in 1..Len(flow) :
       ReadsAhead(n) =>
          /\ Len(calls) < n
          /\ \A k \in 1..Len(calls) : calls[k].step = k
          /\ i <= n
          /\ pc # "returned"
          /\ i = n => pc \in {"import", "args", "raised"}
          /\ (i = n /\ pc = "raised") =>
                (Len(calls) = n - 1 /\ error # "none")

\* the number of steps whose output has been stored
Completed == IF pc \in {"loop", "returned"} THEN i ELSE Max(i - 1, 0)

\* C20: when k steps have completed ctx.steps holds exactly k entries, one
\* per completed step, and the entry of each completed step is still the
\* output that step returned: no later step has removed or overwritten it.
C20_AppendOnly ==
    /\ Cardinality(DOMAIN ctx.steps.dict) = Completed
    /\ \A k \in 1..Completed :
          /\ flow[k].id \in DOMAIN ctx.steps.dict
          /\ PyEq(ctx.steps.dict[flow[k].id], OutputRecord(calls[k].ret))

----------------------------------------------------------------------------
(* Properties of eval_template (checked under SpecTemplate) *)

\* C4: a dotted path whose every key is present in the mapping it is applied
\* to resolves to the value of successive indexing, whatever the keys' names.
C4_PathIsIndexing ==
    (tpc > 0 /\ IsPathTemplate(tval)
       /\ Indexable(tctx0[TemplateRoot(tval)], TemplateKeys(tval))) =>
          /\ tres.err = "none"
          /\ PyEq(tres.val, IndexPath(tctx0[TemplateRoot(tval)], TemplateKeys(tval)))

\* the value is not a string that starts with "${{" and ends with "}}"
NotTemplateForm(val) ==
    \/ ~IsStr(val)
    \/ Len(val.str) < 3
    \/ <<val.str[1], val.str[2], val.str[3]>> # <<"$", "{", "{">>
    \/ <<val.str[Len(val.str) - 1], val.str[Len(val.str)]>> # <<"}", "}">>

\* C6: eval_template returns every value that is not of the form ${{ ... }}
\* unchanged and leaves the context as it was.
C6_PassThrough ==
    (tpc > 0 /\ NotTemplateForm(tval)) =>
       /\ tres.err = "none"
       /\ tres.val = tval
       /\ tctx = tctx0

C6_Witness ==
    /\ tpc = 2
    /\ tval = StrV(Marker \o <<" ", "now">>)
    /\ tres.val = tval
    /\ tctx0 # InitialWrap(tctx0)

----------------------------------------------------------------------------
(* Properties of the scoring engine (checked under SpecScore) *)

\* C8: for an empty record list analyze_market_gaps returns a successful
\* analysis: zero competitors, empty source distribution, all statistics 0,
\* gaps and an opportunity score computed from those defaults with the
\* competition advantage at its flat 20 points.
C8_EmptyInputHandled ==
    (scored_results = <<>> /\ apc = "done") =>
       /\ response.success
       /\ LET a == response.market_analysis IN
          /\ a.market_metrics.total_competitors = 0
          /\ a.market_metrics.source_distribution = EmptyMap
          /\ a.market_metrics.similarity_stats = [avg |-> 0, max |-> 0, min |-> 0, std |-> 0]
          /\ "gaps_identified" \in DOMAIN a
          /\ a.opportunity_score.components.competition_advantage = 200

\* C9: for a non-empty record list, any uniqueness score and any saturation
\* label, _calculate_opportunity_score returns a result and its
\* overall_score lies in [0, 100] (0..1000 tenths).
C9_OverallScoreBounded ==
    /\ "opportunity_score" \in DOMAIN analysis =>
          /\ analysis.opportunity_score.overall_score >= 0
          /\ analysis.opportunity_score.overall_score <= 1000
    /\ (scored_results # <<>> /\ apc \in {"position", "landscape", "respond", "done"}) =>
          "opportunity_score" \in DOMAIN analysis

ComponentSum(c) ==
    c.uniqueness_contribution + c.similarity_advantage
    + c.competition_advantage + c.market_saturation_boost

C9_Witness ==
    /\ apc = "done"
    /\ response.success
    /\ uniqueness_score = 1500
    /\ response.market_analysis.opportunity_score.overall_score = 1000
    /\ ComponentSum(response.market_analysis.opportunity_score.components) > 1000

\* C10: each reported component lies in its band: uniqueness contribution in
\* [0, 40], similarity advantage in [0, 25], competition advantage in
\* [0, 20], market saturation boost in [0, 15] (in tenths).
C10_ComponentsInBands ==
    "opportunity_score" \in DOMAIN analysis =>
       LET c == analysis.opportunity_score.components IN
       /\ 0 <= c.uniqueness_contribution /\ c.uniqueness_contribution <= 400
       /\ 0 <= c.similarity_advantage /\ c.similarity_advantage <= 250
       /\ 0 <= c.competition_advantage /\ c.competition_advantage <= 200
       /\ 0 <= c.market_saturation_boost /\ c.market_saturation_boost <= 150

\* the positions of the gaps of one type
GapsOfType(gaps, type) == {n \in DOMAIN gaps : gaps[n].gap_type = type}

\* _identify_market_gaps has returned for a non-empty record list
GapsKnown == scored_results # <<>> /\ "gaps_identified" \in DOMAIN analysis

\* the largest similarity among the records, as handed over (ten-thousandths)
RawMax == SeqMax([n \in DOMAIN scored_results |-> scored_results[n].similarity])

\* exactly one Blue Ocean gap (confidence 0.9, "Very High") if expected, none
\* otherwise
BlueOceanIff(expected) ==
    LET gaps == analysis.gaps_identified
        blue == GapsOfType(gaps, "Blue Ocean Opportunity")
    IN /\ Cardinality(blue) = (IF expected THEN 1 ELSE 0)
       /\ \A n \in blue : gaps[n].confidence = 900 /\ gaps[n].priority = "Very High"

\* C11 as stated: for a non-empty record list there is exactly one Blue Ocean
\* gap (confidence 0.9, priority "Very High") if and only if uniqueness > 0.7
\* and the maximum similarity over the records is < 0.6.
C11_BlueOceanRule ==
    GapsKnown => BlueOceanIff(uniqueness_score > 700 /\ RawMax < 6000)

\* C11 as amended: ... if and only if uniqueness > 0.7 and the maximum
\* similarity rounded to 3 decimals (the reported similarity_stats.max) is
\* < 0.6; uniqueness 0.85 with similarities [0.1, 0.2, 0.3] yields the gap.
C11_BlueOceanRuleRounded ==
    /\ GapsKnown =>
          BlueOceanIff(uniqueness_score > 700 /\ RoundDiv(RawMax, 10) < 600)
    /\ (GapsKnown /\ uniqueness_score = 850 /\ RawMax <= 3000) =>
          GapsOfType(analysis.gaps_identified, "Blue Ocean Opportunity") # {}

C11_Witness ==
    /\ apc = "done"
    /\ uniqueness_score = 850
    /\ [n \in DOMAIN scored_results |-> scored_results[n].similarity] = <<1000, 2000, 3000>>
    /\ response.success
    /\ response.market_analysis.gaps_identified[1].gap_type = "Blue Ocean Opportunity"
    /\ response.market_analysis.gaps_identified[1].confidence = 900

\* comment.lower(), as its words
LoweredComment(r) == [n \in DOMAIN r.comment |-> Lower(r.comment[n])]

\* the number of records whose lower-cased comment contains the k-th phrase
Mentions(k) ==
    Cardinality({n \in DOMAIN scored_results :
                    InComment(gap_indicators[k].indicator,
                              LoweredComment(scored_results[n]))})

\* the phrases that occur in the comments of more than one record
MentionedByMany == {k \in DOMAIN gap_indicators : Mentions(k) > 1}

\* the gap reports category k with the given frequency
ReportsCategory(gap, k, frequency) ==
    /\ gap.gap_type = "Feature Gap"
    /\ gap.evidence = <<gap_indicators[k].category, frequency>>
    /\ gap.confidence = Min(900, 400 + 200 * frequency)

\* C12: every Feature Gap reports a category with, as frequency, the number
\* of records whose lower-cased comment contains its trigger phrase; and (when
\* no more than 3 categories compete) every category whose phrase occurs in
\* the comments of more than one record is reported, with that count and
\* confidence min(0.9, 0.4 + 0.2 * count).
C12_FeatureGapTally ==
    GapsKnown =>
       LET gaps == analysis.gaps_identified
           features == GapsOfType(gaps, "Feature Gap")
       IN /\ \A n \in features :
                \E k \in MentionedByMany : ReportsCategory(gaps[n], k, Mentions(k))
          /\ Cardinality(MentionedByMany) <= 3 =>
                \A k \in MentionedByMany :
                   \E n \in features : ReportsCategory(gaps[n], k, Mentions(k))

\* _analyze_competitive_landscape has returned for a non-empty record list
LandscapeKnown ==
    scored_results # <<>> /\ "competitive_analysis" \in DOMAIN analysis

\* all the competitor entries of the landscape
Competitors(ca) ==
    ca.competitive_threats \o ca.market_leaders \o ca.weak_competitors

\* the record an entry was made from (titles identify the records)
RecordOf(c) == CHOOSE r \in ScoredPool : r.title = c.name

StarsEscalate(r) == r.source = "github" /\ r.stars > 1000

LevelBySimilarity(r) ==
    IF r.similarity > 7000 THEN "High"
    ELSE IF r.similarity > 5000 THEN "Medium" ELSE "Low"

\* C13: a record's threat level is "High" if and only if its similarity is
\* > 0.7 or it is a GitHub record with more than 1000 stars; otherwise it is
\* "Medium" iff similarity > 0.5, else "Low".  Stars never lower the level
\* set by similarity, and GitHub stars in (100, 1000] add a quality
\* indicator and leave the level as similarity set it.
C13_EscalateOnly ==
    LandscapeKnown =>
       LET all == Competitors(analysis.competitive_analysis) IN
       /\ \A n \in DOMAIN scored_results :
             \E m \in DOMAIN all : all[m].name = scored_results[n].title
       /\ \A m \in DOMAIN all :
             LET r == RecordOf(all[m])
                 level == all[m].threat_level
             IN /\ level = "High" <=> (r.similarity > 7000 \/ StarsEscalate(r))
                /\ level # "High" =>
                      level = (IF r.similarity > 5000 THEN "Medium" ELSE "Low")
                /\ LevelBySimilarity(r) = "High" => level = "High"
                /\ (r.source = "github" /\ r.stars > 100 /\ r.stars <= 1000) =>
                      /\ level = LevelBySimilarity(r)
                      /\ \E q \in DOMAIN all[m].quality_indicators :
                            all[m].quality_indicators[q] = <<"GitHub stars", r.stars>>

C13_Witness ==
    /\ apc = "done"
    /\ response.success
    /\ LET ca == response.market_analysis.competitive_analysis IN
       /\ \E m \in DOMAIN ca.competitive_threats :
             /\ ca.competitive_threats[m].similarity = 3000
             /\ ca.competitive_threats[m].source = "github"
             /\ ca.competitive_threats[m].threat_level = "High"
       /\ \E m \in DOMAIN ca.competitive_threats :
             /\ ca.competitive_threats[m].similarity = 8000
             /\ ca.competitive_threats[m].source = "github"
             /\ Len(ca.competitive_threats[m].quality_indicators) = 1
       /\ \E m \in DOMAIN ca.market_leaders :
             ca.market_leaders[m].threat_level = "Medium"

NamesOf(entries) == [n \in DOMAIN entries |-> entries[n].name]

HasQualityIndicator(r) ==
    r.similarity > 7000 \/ (r.source = "github" /\ r.stars > 100)

BucketOf(r) ==
    IF r.similarity > 7000 \/ StarsEscalate(r) THEN "competitive_threats"
    ELSE IF HasQualityIndicator(r) THEN "market_leaders"
    ELSE "weak_competitors"

\* the titles of the records that belong to the bucket, in input order
RECURSIVE TitlesIn(_, _)
TitlesIn(records, bucket) ==
    IF records = <<>> THEN <<>>
    ELSE (IF BucketOf(Head(records)) = bucket
          THEN <<Head(records).title>> ELSE <<>>)
         \o TitlesIn(Tail(records), bucket)

\* C14: for a non-empty record list every record is in exactly one of
\* competitive_threats (threat level High), market_leaders (not High, at
\* least one quality indicator) and weak_competitors (the others), each
\* bucket in input order, so the three lengths sum to the number of records.
C14_BucketPartition ==
    LandscapeKnown =>
       LET ca == analysis.competitive_analysis IN
       /\ Len(ca.competitive_threats) + Len(ca.market_leaders)
             + Len(ca.weak_competitors) = Len(scored_results)
       /\ \A b \in {"competitive_threats", "market_leaders", "weak_competitors"} :
             NamesOf(ca[b]) = TitlesIn(scored_results, b)
       /\ \A m \in DOMAIN ca.competitive_threats :
             ca.competitive_threats[m].threat_level = "High"
       /\ \A m \in DOMAIN ca.market_leaders :
             /\ ca.market_leaders[m].threat_level # "High"
             /\ ca.market_leaders[m].quality_indicators # <<>>
       /\ \A m \in DOMAIN ca.weak_competitors :
             /\ ca.weak_competitors[m].threat_level # "High"
             /\ ca.weak_competitors[m].quality_indicators = <<>>

C14_Witness ==
    /\ apc = "done"
    /\ response.success
    /\ Len(scored_results) = 3
    /\ LET ca == response.market_analysis.competitive_analysis IN
       /\ Len(ca.competitive_threats) = 1
       /\ Len(ca.market_leaders) = 1
       /\ Len(ca.weak_competitors) = 1
       /\ ca.weak_competitors[1].name = scored_results[1].title

ScoreKnown == "opportunity_score" \in DOMAIN analysis

\* the breakpoints read against the score as it is reported, in tenths
InterpretationOfReported(overall_score) ==
    IF overall_score >= 850 THEN "Exceptional"
    ELSE IF overall_score >= 700 THEN "Strong"
    ELSE IF overall_score >= 550 THEN "Moderate"
    ELSE IF overall_score >= 400 THEN "Limited"
    ELSE "Low"

\* C21: in every result of _calculate_opportunity_score the interpretation
\* is the one the breakpoints 85 / 70 / 55 / 40 give for the returned
\* overall_score: "Exceptional" iff overall_score >= 85, "Strong" iff
\* 70 <= overall_score < 85, "Moderate" iff 55 <= overall_score < 70,
\* "Limited" iff 40 <= overall_score < 55, "Low" iff overall_score < 40.
C21_InterpretationMatchesReported ==
    ScoreKnown =>
       analysis.opportunity_score.interpretation
          = InterpretationOfReported(analysis.opportunity_score.overall_score)

----------------------------------------------------------------------------
(* Properties of the scoring engine on a crowded market (checked under     *)
(* SpecCrowded)                                                            *)

PositionKnown == "market_position" \in DOMAIN analysis

\* the sum of the similarities as handed over (ten-thousandths)
RawSum == SeqSum([n \in DOMAIN scored_results |-> scored_results[n].similarity])

\* the label of the first rule that matches, given whether the mean
\* similarity counts as < 0.5 and as < 0.4
FirstMatch(below_half, below_four_tenths) ==
    IF uniqueness_score > 800 THEN "Pioneer"
    ELSE IF uniqueness_score > 600 /\ below_half THEN "Differentiator"
    ELSE IF Len(scored_results) < 5 THEN "Fast follower"
    ELSE IF below_four_tenths THEN "Niche specialist"
    ELSE "Cost leader"

Labels ==
    {"Pioneer", "Differentiator", "Fast follower", "Niche specialist", "Cost leader"}

Recommended == apc = "done" /\ response.success

\* the positions of the recommendations of one type
RecsOfType(recs, type) == {n \in DOMAIN recs : recs[n].type = type}

\* the High / Very High gaps, in gap order
RECURSIVE HighPriorityGaps(_)
HighPriorityGaps(gaps) ==
    IF gaps = <<>> THEN <<>>
    ELSE (IF Head(gaps).priority \in {"Very High", "High"}
          THEN <<Head(gaps)>> ELSE <<>>)
         \o HighPriorityGaps(Tail(gaps))

\* the entries of one type, in list order
RECURSIVE EntriesOfType(_, _)
EntriesOfType(recs, type) ==
    IF recs = <<>> THEN <<>>
    ELSE (IF Head(recs).type = type THEN <<Head(recs)>> ELSE <<>>)
         \o EntriesOfType(Tail(recs), type)

\* C17: the recommendations hold exactly one Strategic Timing entry, "Very
\* High" iff overall_score > 75 and "High" iff 50 < overall_score <= 75, and
\* none otherwise; a Competitive Strategy entry iff there are more than 3
\* competitive threats; a Market Education entry iff there is none; a
\* Resource Allocation entry iff overall_score > 60; one Product Development
\* entry per High / Very High gap, in gap order, at most 3; and always
\* exactly one Market Positioning entry.
C17_RecommendationThresholds ==
    Recommended =>
       LET recs == response.recommendations
           a == response.market_analysis
           score == a.opportunity_score.overall_score
           threats == Len(a.competitive_analysis.competitive_threats)
           timing == RecsOfType(recs, "Strategic Timing")
           high == HighPriorityGaps(a.gaps_identified)
           product == EntriesOfType(recs, "Product Development")
           Count(type) == Cardinality(RecsOfType(recs, type))
       IN /\ Cardinality(timing) = (IF score > 500 THEN 1 ELSE 0)
          /\ \A n \in timing :
                recs[n].priority = (IF score > 750 THEN "Very High" ELSE "High")
          /\ Count("Competitive Strategy") = (IF threats > 3 THEN 1 ELSE 0)
          /\ Count("Market Education") = (IF threats = 0 THEN 1 ELSE 0)
          /\ Count("Resource Allocation") = (IF score > 600 THEN 1 ELSE 0)
          /\ Count("Market Positioning") = 1
          /\ Len(product) = Min(3, Len(high))
          /\ \A n \in DOMAIN product :
                /\ product[n].about = high[n].gap_type
                /\ product[n].priority = high[n].priority

C17_Witness ==
    /\ Recommended
    /\ Len(response.market_analysis.competitive_analysis.competitive_threats) > 3
    /\ RecsOfType(response.recommendations, "Competitive Strategy") # {}
    /\ RecsOfType(response.recommendations, "Resource Allocation") = {}
    /\ \E n \in RecsOfType(response.recommendations, "Strategic Timing") :
          response.recommendations[n].priority = "High"

\* the place of a gap type in the fixed rule order
RuleOrder(type) ==
    CASE type = "Blue Ocean Opportunity" -> 1
      [] type = "Technical Implementation Gap" -> 2
      [] type = "Feature Gap" -> 3
      [] type = "Positioning Opportunity" -> 4
      [] type = "Quality Leadership Opportunity" -> 5

\* C18: gaps_identified lists the gaps in the rule order Blue Ocean,
\* Technical Implementation Gap, Feature Gaps, Positioning Opportunity,
\* Quality Leadership, each of the four single rules at most once; it holds
\* at most 3 Feature Gaps, in non-increasing order of frequency, each with
\* frequency >= 2 and confidence min(0.9, 0.4 + 0.2 * frequency); so it never
\* holds more than 7 gaps.
C18_GapOrderAndShape ==
    GapsKnown =>
       LET gaps == analysis.gaps_identified
           features == GapsOfType(gaps, "Feature Gap")
       IN /\ \A m, n \in DOMAIN gaps :
                m < n => RuleOrder(gaps[m].gap_type) <= RuleOrder(gaps[n].gap_type)
          /\ \A type \in {"Blue Ocean Opportunity", "Technical Implementation Gap",
                           "Positioning Opportunity", "Quality Leadership Opportunity"} :
                Cardinality(GapsOfType(gaps, type)) <= 1
          /\ Cardinality(features) <= 3
          /\ \A m, n \in features :
                m < n => gaps[m].evidence[2] >= gaps[n].evidence[2]
          /\ \A n \in features :
                /\ gaps[n].evidence[2] >= 2
                /\ gaps[n].confidence = Min(900, 400 + 200 * gaps[n].evidence[2])
          /\ Len(gaps) <= 7

\* all five rules fire, with 3 Feature Gaps that differ in frequency
C18_Witness ==
    /\ GapsKnown
    /\ LET gaps == analysis.gaps_identified
           features == GapsOfType(gaps, "Feature Gap")
       IN /\ Len(gaps) = 7
          /\ Cardinality(features) = 3
          /\ \E m, n \in features : gaps[m].evidence[2] > gaps[n].evidence[2]

----------------------------------------------------------------------------
(* Properties of repeated calls (checked under SpecRepeat) *)

\* C16: a second call of analyze_market_gaps on the same scored_results,
\* uniqueness_score and saturation returns what the first call returned, in
\* every field.
C16_SameInputSameOutput ==
    (apc = "done" /\ first # NoneV) => response = first

----------------------------------------------------------------------------
(* Properties of score_similarity (checked under SpecSimilarity) *)

\* the reply holds a JSON object somewhere: an opening brace, members, and
\* the closing brace
HoldsObject(text) ==
    \E a, b \in DOMAIN text :
       /\ a < b
       /\ text[a] = Open
       /\ text[b] = Close
       /\ \A k \in (a + 1)..(b - 1) : text[k].t = "member"

\* scoring of an element fails: the LLM call raises, or its reply has no
\* parsable JSON object
ScoringFails(reply) ==
    \/ reply.api = "error"
    \/ reply.content = NoneV
    \/ ~HoldsObject(reply.content.text)

SomeScoringFails == \E k \in DOMAIN llm : ScoringFails(llm[k])

\* C22: score_similarity returns scored_results with exactly one entry per
\* element of market_results, in the same order; when scoring of an element
\* fails (the LLM call raises or its reply has no parsable JSON object) that
\* element gets similarity 0.0 and comment "Scoring failed", no exception
\* leaves score_similarity, and every other element is still scored.
C22_CatchAndDefault ==
    /\ SomeScoringFails => spc # "raised"
    /\ \A k \in DOMAIN llm :
          ScoringFails(llm[k]) =>
             /\ sim_results[k].similarity = NumV(0)
             /\ sim_results[k].comment = TextV("Scoring failed")
    /\ spc = "returned" =>
          /\ Len(sret.val.scored_results) = Len(market_results)
          /\ Len(llm) = Len(market_results)
          /\ \A k \in DOMAIN market_results :
                /\ sret.val.scored_results[k] = market_results[k]
                /\ "similarity" \in DOMAIN market_results[k]
                /\ "comment" \in DOMAIN market_results[k]

----------------------------------------------------------------------------
(* Properties of search_ddg (checked under SpecDdg) *)

Fails(o) == o.err # "none"

AllFailEmpty ==
    /\ Len(backend) = max_attempts
    /\ \A k \in DOMAIN backend : Fails(backend[k]) /\ backend[k].yielded = 0

\* at most 5 attempts; none after the first that completes without an
\* exception; no backend exception leaves search_ddg; the empty list when
\* all 5 attempts fail before yielding a result
BoundedRetry ==
    /\ Len(backend) <= 5
    /\ \A k \in DOMAIN backend : k < Len(backend) => Fails(backend[k])
    /\ dpc # "raised"
    /\ (dpc = "returned" /\ AllFailEmpty) => dret = Ok(<<>>, NoneV)
    /\ dpc = "returned" => dret.err = "none"

\* C23: for any sequence of backend successes and failures search_ddg makes
\* at most 5 attempts, makes no further attempt after the first attempt
\* that completes without an exception, always terminates without
\* propagating a backend exception, and returns the empty list when all 5
\* attempts fail before yielding any result.
C23_BoundedRetry == [](BoundedRetry) /\ <>(dpc = "returned")

C23_Witness ==
    /\ dpc = "returned"
    /\ AllFailEmpty
    /\ attempt = 5
    /\ dret.val = <<>>

====
